---- MODULE Spec2Model ----
(***************************************************************************)
(* Model of the jpegtran GStreamer element (plugins/gstjpegtran.c).        *)
(*                                                                         *)
(* The element owns two libturbojpeg handles and one property (xop).  Its  *)
(* chain function gst_jpegtran_chain is modelled step by step: one action  *)
(* per call into GStreamer or libturbojpeg, with the outcome of each call  *)
(* chosen nondeterministically among the outcomes the library documents.   *)
(***************************************************************************)
EXTENDS Integers, Sequences, FiniteSets

(* ---------------------------------------------------------------- bounds *)

\* number of buffers the upstream peer delivers in one run
MaxBuffers == 2

(* ------------------------------------------------------ program constants *)

\* TJXOP_NONE, the value of DEFAULT_XOP
DEFAULT_XOP == 0

\* the eight values of the GstJpegTranXop enum: none, hflip, vflip,
\* transpose, transverse, rot90, rot180, rot270
XopTypes == 0 .. 7

\* the flags argument of tjTransform, a bit mask, is the set of its bits
\* the flags argument given to tjTransform without TJFLAG_NOREALLOC
flags_realloc == {}

\* int flags = TJFLAG_NOREALLOC;
flags == {"TJFLAG_NOREALLOC"}

\* GST_CLOCK_TIME_NONE, the timestamp of a buffer that carries none
GST_CLOCK_TIME_NONE == -1

\* GST_BUFFER_FLAG_DISCONT is the one buffer flag the model distinguishes
BufferFlags == {"none", "discont"}

\* what tjBufSize returns for an invalid argument: (unsigned long) -1
TJ_SIZE_ERROR == -1

(* ------------------------------------------------------- library functions *)

\* tjMCUWidth[] and tjMCUHeight[] of libturbojpeg, indexed by TJSAMP_444,
\* TJSAMP_422, TJSAMP_420, TJSAMP_GRAY, TJSAMP_440, TJSAMP_411
tjMCUWidth == <<8, 16, 16, 8, 8, 32>>
tjMCUHeight == <<8, 8, 16, 8, 16, 8>>

\* PAD(v, p): v rounded up to a multiple of p
PAD(v, p) == ((v + p - 1) \div p) * p

\* tjBufSize(width, height, jpegSubsamp): the worst-case size of a JPEG
\* image of that geometry, (unsigned long) -1 when an argument is invalid
tjBufSize(w, h, s) ==
  IF w < 1 \/ h < 1 \/ s < 0 \/ s >= 6
  THEN TJ_SIZE_ERROR
  ELSE LET mcuw == tjMCUWidth[s + 1]
           mcuh == tjMCUHeight[s + 1]
           chromasf == IF s = 3 THEN 0 ELSE (4 * 64) \div (mcuw * mcuh)
       IN  PAD(w, mcuw) * PAD(h, mcuh) * (2 + chromasf) + 2048

(* ----------------------------------------------------------------- inputs *)

\* the geometry a delivered JPEG header declares: <<width, height, subsamp>>
Geometries == { <<8, 8, 0>>, <<17, 8, 2>> }

\* a buffer delivered by upstream: its timestamp, its flags, the geometry its
\* header declares and whether that header is well formed
InputBuffers(n) ==
  [ pts : {GST_CLOCK_TIME_NONE, n}, bflags : BufferFlags,
    geom : Geometries, wellFormed : BOOLEAN ]

\* the input of no invocation
NoInput ==
  [ pts |-> GST_CLOCK_TIME_NONE, bflags |-> "none",
    geom |-> <<0, 0, 0>>, wellFormed |-> FALSE ]

\* GstBuffer *trimmedbuf = NULL;
NoBuffer ==
  [ kind |-> "null", offset |-> 0, size |-> 0,
    pts |-> GST_CLOCK_TIME_NONE, bflags |-> "none" ]

\* gst_buffer_new (): a buffer without memory, timestamps or flags
gst_buffer_new == [ pts |-> GST_CLOCK_TIME_NONE, bflags |-> "none" ]

\* gst_buffer_copy_region (src, FLAGS | TIMESTAMPS | META | MEMORY, offset,
\* size) on a buffer of bufsize bytes: NULL unless the region lies inside
\* the buffer, else a buffer over that region with the flags of src and,
\* the region starting at offset 0, its timestamp
gst_buffer_copy_region(src, bufsize, offset, size) ==
  IF offset + size > bufsize
  THEN NoBuffer
  ELSE [ kind |-> "buffer", offset |-> offset, size |-> size,
         pts |-> IF offset = 0 THEN src.pts ELSE GST_CLOCK_TIME_NONE,
         bflags |-> src.bflags ]

\* the size argument of gst_buffer_copy_region, were it the mapped size
copy_region_size_capacity(dst, cap) == cap

\* the size argument of gst_buffer_copy_region: dstSizes[0]
copy_region_size(dst, cap) == dst

\* the byte counts tjTransform can report in dstSizes[0] on success for a
\* destination of the given size: with TJFLAG_NOREALLOC the image is written
\* inside the caller's buffer, without it the library may grow the buffer
tjTransformSizes(f, size) ==
  IF "TJFLAG_NOREALLOC" \in f
  THEN {1, size} \cap (1 .. size)
  ELSE {1, size, size + 1} \ {0}

\* whether tjTransform can succeed on a destination of the given size: with
\* TJFLAG_NOREALLOC it needs a buffer to write to
tjTransformCanSucceed(f, size) == "TJFLAG_NOREALLOC" \in f => size >= 1

\* the steps of one invocation of the chain function that can fail
Steps == {"map_in", "probe", "alloc", "map_out", "transform"}

(* ------------------------------------------------------------------ state *)

VARIABLES
  xop,          \* filter->xop
  tjHandle,     \* filter->tjHandle: "valid", "null" or "destroyed"
  tjInstance,   \* filter->tjInstance: "valid", "null" or "destroyed"
  pc,           \* position of the streaming thread in gst_jpegtran_chain
  nbuf,         \* number of invocations of the chain function so far
  inbuf,        \* the buffer handed to the current invocation
  inRefs,       \* references the invocation holds on inbuf
  inMapped,     \* inbuf is mapped (in_info is live)
  geo,          \* the locals <<width, height, jpegSubsamp>>
  xform_op,     \* xform.op
  outRefs,      \* references the invocation holds on outbuf
  outCap,       \* size of the memory appended to outbuf, 0 when there is none
  outMapped,    \* outbuf is mapped (out_info is live)
  dstSizes0,    \* dstSizes[0]
  trimmedbuf,   \* trimmedbuf, see NoBuffer and gst_buffer_copy_region
  ret,          \* what the invocation returned, "none" while it runs
  downstream,   \* the buffers received by the peer of srcpad, in order
  failed,       \* the steps of this invocation that failed
  trace,        \* the steps of this invocation that were executed
  errors,       \* GST_ELEMENT_ERROR messages posted by this invocation
  inUnrefs,     \* gst_buffer_unref (inbuf) calls of this invocation
  outUnrefs,    \* gst_buffer_unref (outbuf) calls of this invocation
  pushedNow,    \* buffers delivered downstream by this invocation
  written,      \* bytes the transform reported on success, -1 otherwise
  xop_at_entry, \* filter->xop as it was when the invocation was entered,
                \* kept until the invocation has set xform.op
  pc2           \* position of a second streaming thread in the chain function

vars == << xop, tjHandle, tjInstance, pc, nbuf, inbuf, inRefs, inMapped, geo,
           xform_op, outRefs, outCap, outMapped, dstSizes0, trimmedbuf, ret,
           downstream, failed, trace, errors, inUnrefs, outUnrefs, pushedNow,
           written, xop_at_entry, pc2 >>

instance_vars == << xop, tjHandle, tjInstance >>

\* the locals of the chain function and the bookkeeping of one invocation
local_vars == << inbuf, inRefs, inMapped, geo, xform_op, outRefs, outCap,
                 outMapped, dstSizes0, trimmedbuf, failed, trace, errors,
                 inUnrefs, outUnrefs, pushedNow, written, xop_at_entry >>

(* ---------------------------------------------------------- construction *)

\* gst_jpegtran_init: xop gets its default, each handle is what
\* tjInitDecompress / tjInitTransform returned (NULL on failure)
Init ==
  /\ xop = DEFAULT_XOP
  /\ tjHandle \in {"valid", "null"}
  /\ tjInstance \in {"valid", "null"}
  /\ pc = "idle"
  /\ nbuf = 0
  /\ inbuf = NoInput
  /\ inRefs = 0
  /\ inMapped = FALSE
  /\ geo = <<0, 0, 0>>
  /\ xform_op = DEFAULT_XOP
  /\ outRefs = 0
  /\ outCap = 0
  /\ outMapped = FALSE
  /\ dstSizes0 = 0
  /\ trimmedbuf = NoBuffer
  /\ ret = "none"
  /\ downstream = << >>
  /\ failed = {}
  /\ trace = {}
  /\ errors = 0
  /\ inUnrefs = 0
  /\ outUnrefs = 0
  /\ pushedNow = 0
  /\ written = -1
  /\ xop_at_entry = DEFAULT_XOP
  /\ pc2 = "idle"

(* ------------------------------------------------------------ properties *)

\* gst_jpegtran_set_property, case PROP_XOP
SetProperty ==
  /\ tjHandle # "destroyed"
  /\ \E v \in XopTypes :
       /\ v # xop
       /\ xop' = v
  /\ UNCHANGED << tjHandle, tjInstance, pc, nbuf, ret, downstream, pc2 >>
  /\ UNCHANGED local_vars

\* gst_jpegtran_finalize: both handles are destroyed; the object is
\* finalized only when no streaming thread is inside the element
Finalize ==
  /\ pc = "idle"
  /\ pc2 = "idle"
  /\ tjHandle # "destroyed"
  /\ tjHandle' = "destroyed"
  /\ tjInstance' = "destroyed"
  /\ UNCHANGED << xop, pc, nbuf, ret, downstream, pc2 >>
  /\ UNCHANGED local_vars

(* --------------------------------------------------- gst_jpegtran_chain *)

\* entry: upstream hands a buffer and one reference on it to the element
ChainEnter ==
  /\ pc = "idle"
  /\ nbuf < MaxBuffers
  /\ tjHandle # "destroyed"
  /\ \E b \in InputBuffers(nbuf + 1) : inbuf' = b
  /\ nbuf' = nbuf + 1
  /\ pc' = "map_in"
  /\ inRefs' = 1
  /\ inMapped' = FALSE
  /\ geo' = <<0, 0, 0>>
  /\ xform_op' = DEFAULT_XOP
  /\ outRefs' = 0
  /\ outCap' = 0
  /\ outMapped' = FALSE
  /\ dstSizes0' = 0
  /\ trimmedbuf' = NoBuffer
  /\ ret' = "none"
  /\ failed' = {}
  /\ trace' = {}
  /\ errors' = 0
  /\ inUnrefs' = 0
  /\ outUnrefs' = 0
  /\ pushedNow' = 0
  /\ written' = -1
  /\ xop_at_entry' = xop
  /\ UNCHANGED << xop, tjHandle, tjInstance, downstream, pc2 >>

\* gst_buffer_map (inbuf, &in_info, GST_MAP_READ) and its error branch
MapInput ==
  /\ pc = "map_in"
  /\ trace' = trace \cup {"map_in"}
  /\ \E ok \in BOOLEAN :
       IF ok
       THEN /\ inMapped' = TRUE
            /\ pc' = "probe"
            /\ UNCHANGED << failed, errors, inRefs, inUnrefs, ret,
                            xop_at_entry >>
       ELSE /\ failed' = failed \cup {"map_in"}
            /\ errors' = errors + 1
            /\ inRefs' = inRefs - 1
            /\ inUnrefs' = inUnrefs + 1
            /\ ret' = "GST_FLOW_ERROR"
            /\ pc' = "idle"
            /\ xop_at_entry' = DEFAULT_XOP
            /\ UNCHANGED inMapped
  /\ UNCHANGED << xop, tjHandle, tjInstance, nbuf, inbuf, geo, xform_op,
                  outRefs, outCap, outMapped, dstSizes0, trimmedbuf,
                  downstream, outUnrefs, pushedNow, written, pc2 >>

\* what tjDecompressHeader3 can leave in width, height and jpegSubsamp when
\* it fails on a buffer whose header declares geometry g: nothing written,
\* or the size written and the subsampling undetermined, or all written
ProbeFailureGeometries(g) == { <<0, 0, 0>>, <<g[1], g[2], -1>>, g }

\* tjDecompressHeader3 (self->tjHandle, ...) and its error branch, which
\* posts the error and goes on
Probe ==
  /\ pc = "probe"
  /\ trace' = trace \cup {"probe"}
  /\ IF tjHandle = "valid" /\ inbuf.wellFormed
     THEN /\ geo' = inbuf.geom
          /\ UNCHANGED << failed, errors >>
     ELSE /\ failed' = failed \cup {"probe"}
          /\ errors' = errors + 1
          /\ IF tjHandle = "valid"
             THEN geo' \in ProbeFailureGeometries(inbuf.geom)
             ELSE geo' = geo
  /\ pc' = "alloc"
  /\ UNCHANGED << xop, tjHandle, tjInstance, nbuf, inbuf, inRefs, inMapped,
                  xform_op, outRefs, outCap, outMapped, dstSizes0, trimmedbuf,
                  ret, downstream, inUnrefs, outUnrefs, pushedNow, written,
                  xop_at_entry, pc2 >>

\* the value xform.op would keep from memset (&xform, 0, ...) alone
xform_op_unset(x) == DEFAULT_XOP

\* the value given to xform.op: self->xop
xform_op_value(x) == x

\* the allocation step with the assignment of line 325 written the other
\* way round, self->xop = xform.op
AllocAssignReversed ==
  /\ pc = "alloc"
  /\ trace' = trace \cup {"alloc"}
  /\ xop' = xform_op
  /\ xop_at_entry' = DEFAULT_XOP
  /\ outRefs' = 1
  /\ LET size == tjBufSize(geo[1], geo[2], geo[3])
     IN  \E ok \in BOOLEAN :
           /\ ok => size # TJ_SIZE_ERROR
           /\ IF ok
              THEN /\ outCap' = size
                   /\ UNCHANGED failed
              ELSE /\ outCap' = 0
                   /\ failed' = failed \cup {"alloc"}
  /\ pc' = "map_out"
  /\ UNCHANGED << xform_op, tjHandle, tjInstance, nbuf, inbuf, inRefs,
                  inMapped, geo, outMapped, dstSizes0, trimmedbuf, ret,
                  downstream, errors, inUnrefs, outUnrefs, pushedNow, written,
                  pc2 >>

\* xform.op = self->xop; outbuf = gst_buffer_new (); mem =
\* gst_allocator_alloc (NULL, tjBufSize (...), NULL);
\* gst_buffer_append_memory (outbuf, mem): no memory is appended when the
\* allocator returned NULL
Alloc ==
  /\ pc = "alloc"
  /\ trace' = trace \cup {"alloc"}
  /\ xform_op' = xform_op_value(xop)
  /\ xop_at_entry' = DEFAULT_XOP
  /\ outRefs' = 1
  /\ LET size == tjBufSize(geo[1], geo[2], geo[3])
     IN  \E ok \in BOOLEAN :
           /\ ok => size # TJ_SIZE_ERROR
           /\ IF ok
              THEN /\ outCap' = size
                   /\ UNCHANGED failed
              ELSE /\ outCap' = 0
                   /\ failed' = failed \cup {"alloc"}
  /\ pc' = "map_out"
  /\ UNCHANGED << xop, tjHandle, tjInstance, nbuf, inbuf, inRefs, inMapped,
                  geo, outMapped, dstSizes0, trimmedbuf, ret, downstream,
                  errors, inUnrefs, outUnrefs, pushedNow, written, pc2 >>

\* gst_buffer_map (outbuf, &out_info, GST_MAP_WRITE) and its error branch;
\* then dstSizes[] = { out_info.size }
MapOutput ==
  /\ pc = "map_out"
  /\ trace' = trace \cup {"map_out"}
  /\ \E ok \in BOOLEAN :
       IF ok
       THEN /\ outMapped' = TRUE
            /\ dstSizes0' = outCap
            /\ pc' = "transform"
            /\ UNCHANGED << failed, errors, outRefs, outUnrefs, ret >>
       ELSE /\ failed' = failed \cup {"map_out"}
            /\ errors' = errors + 1
            /\ outRefs' = outRefs - 1
            /\ outUnrefs' = outUnrefs + 1
            /\ ret' = "GST_FLOW_ERROR"
            /\ pc' = "idle"
            /\ UNCHANGED << outMapped, dstSizes0 >>
  /\ UNCHANGED << xop, tjHandle, tjInstance, nbuf, inbuf, inRefs, inMapped,
                  geo, xform_op, outCap, trimmedbuf, downstream, inUnrefs,
                  pushedNow, written, xop_at_entry, pc2 >>

\* tjTransform (self->tjInstance, ..., dstBufs, dstSizes, &xform, flags) and
\* its error branch, which posts the error and goes on.  A failed call
\* leaves dstSizes[0] as it was or at the worst-case size of the image
Transform ==
  /\ pc = "transform"
  /\ trace' = trace \cup {"transform"}
  /\ \E ok \in BOOLEAN :
       /\ ok => /\ tjInstance = "valid"
                /\ tjTransformCanSucceed(flags, dstSizes0)
       /\ IF ok
          THEN /\ \E n \in tjTransformSizes(flags, dstSizes0) :
                    /\ dstSizes0' = n
                    /\ written' = n
               /\ UNCHANGED << failed, errors >>
          ELSE /\ failed' = failed \cup {"transform"}
               /\ errors' = errors + 1
               /\ IF tjInstance = "valid"
                  THEN dstSizes0' \in
                         { dstSizes0,
                           tjBufSize(inbuf.geom[1], inbuf.geom[2],
                                     inbuf.geom[3]) }
                  ELSE dstSizes0' = dstSizes0
               /\ UNCHANGED written
  /\ pc' = "unmap"
  /\ UNCHANGED << xop, tjHandle, tjInstance, nbuf, inbuf, inRefs, inMapped,
                  geo, xform_op, outRefs, outCap, outMapped, trimmedbuf, ret,
                  downstream, inUnrefs, outUnrefs, pushedNow, xop_at_entry,
                  pc2 >>

\* the unmap step without gst_buffer_unmap (outbuf, &out_info)
UnmapInputOnly ==
  /\ pc = "unmap"
  /\ inMapped' = FALSE
  /\ pc' = "trim"
  /\ UNCHANGED << xop, tjHandle, tjInstance, nbuf, inbuf, inRefs, geo,
                  xform_op, outRefs, outCap, outMapped, dstSizes0, trimmedbuf,
                  ret, downstream, failed, trace, errors, inUnrefs, outUnrefs,
                  pushedNow, written, xop_at_entry, pc2 >>

\* gst_buffer_unmap (inbuf, &in_info); gst_buffer_unmap (outbuf, &out_info)
Unmap ==
  /\ pc = "unmap"
  /\ inMapped' = FALSE
  /\ outMapped' = FALSE
  /\ pc' = "trim"
  /\ UNCHANGED << xop, tjHandle, tjInstance, nbuf, inbuf, inRefs, geo,
                  xform_op, outRefs, outCap, dstSizes0, trimmedbuf, ret,
                  downstream, failed, trace, errors, inUnrefs, outUnrefs,
                  pushedNow, written, xop_at_entry, pc2 >>

\* trimmedbuf = gst_buffer_copy_region (outbuf, ..., 0, dstSizes[0])
Trim ==
  /\ pc = "trim"
  /\ trimmedbuf' = gst_buffer_copy_region(gst_buffer_new, outCap, 0,
                                          copy_region_size(dstSizes0, outCap))
  /\ pc' = "push"
  /\ UNCHANGED << xop, tjHandle, tjInstance, nbuf, inbuf, inRefs, inMapped,
                  geo, xform_op, outRefs, outCap, outMapped, dstSizes0, ret,
                  downstream, failed, trace, errors, inUnrefs, outUnrefs,
                  pushedNow, written, xop_at_entry, pc2 >>

\* ret = gst_pad_push (self->srcpad, trimmedbuf): a NULL buffer is refused
\* with an error, any other buffer goes to the peer, whose result is ret
Push ==
  /\ pc = "push"
  /\ IF trimmedbuf.kind = "null"
     THEN /\ ret' = "GST_FLOW_ERROR"
          /\ UNCHANGED << downstream, pushedNow >>
     ELSE /\ ret' \in {"GST_FLOW_OK", "GST_FLOW_ERROR"}
          /\ downstream' = Append(downstream,
                                  [ seq |-> nbuf, size |-> trimmedbuf.size,
                                    pts |-> trimmedbuf.pts,
                                    bflags |-> trimmedbuf.bflags ])
          /\ pushedNow' = pushedNow + 1
  /\ pc' = "release"
  /\ UNCHANGED << xop, tjHandle, tjInstance, nbuf, inbuf, inRefs, inMapped,
                  geo, xform_op, outRefs, outCap, outMapped, dstSizes0,
                  trimmedbuf, failed, trace, errors, inUnrefs, outUnrefs,
                  written, xop_at_entry, pc2 >>

\* the last step without gst_buffer_unref (outbuf)
ReleaseInputOnly ==
  /\ pc = "release"
  /\ inRefs' = inRefs - 1
  /\ inUnrefs' = inUnrefs + 1
  /\ pc' = "idle"
  /\ UNCHANGED << xop, tjHandle, tjInstance, nbuf, inbuf, inMapped, geo,
                  xform_op, outRefs, outUnrefs, outCap, outMapped, dstSizes0,
                  trimmedbuf, ret, downstream, failed, trace, errors,
                  pushedNow, written, xop_at_entry, pc2 >>

\* gst_buffer_unref (inbuf); gst_buffer_unref (outbuf); return ret;
Release ==
  /\ pc = "release"
  /\ inRefs' = inRefs - 1
  /\ inUnrefs' = inUnrefs + 1
  /\ outRefs' = outRefs - 1
  /\ outUnrefs' = outUnrefs + 1
  /\ pc' = "idle"
  /\ UNCHANGED << xop, tjHandle, tjInstance, nbuf, inbuf, inMapped, geo,
                  xform_op, outCap, outMapped, dstSizes0, trimmedbuf, ret,
                  downstream, failed, trace, errors, pushedNow, written,
                  xop_at_entry, pc2 >>

(* ---------------------------------------------------------- specification *)

Next ==
  \/ SetProperty
  \/ Finalize
  \/ ChainEnter
  \/ MapInput
  \/ Probe
  \/ Alloc
  \/ MapOutput
  \/ Transform
  \/ Unmap
  \/ Trim
  \/ Push
  \/ Release

Spec == Init /\ [][Next]_vars

(* ------------------------------------------------ two streaming threads *)

\* the positions a thread can move to from position p of the chain function:
\* the function has no lock and no wait, so a thread goes from each call to
\* the next, and returns early only from the two failed maps
ChainSuccessors(p) ==
  CASE p = "idle" -> {"map_in"}
    [] p = "map_in" -> {"probe", "idle"}
    [] p = "probe" -> {"alloc"}
    [] p = "alloc" -> {"map_out"}
    [] p = "map_out" -> {"transform", "idle"}
    [] p = "transform" -> {"unmap"}
    [] p = "unmap" -> {"trim"}
    [] p = "trim" -> {"push"}
    [] p = "push" -> {"release"}
    [] p = "release" -> {"idle"}

\* a step of gst_jpegtran_chain in a second thread that delivers buffers to
\* the same element; only its position is followed, its locals are its own
OtherChain ==
  /\ tjHandle # "destroyed"
  /\ pc2' \in ChainSuccessors(pc2)
  /\ UNCHANGED << xop, tjHandle, tjInstance, pc, nbuf, ret, downstream >>
  /\ UNCHANGED local_vars

\* the element with buffers delivered from two threads, the property left
\* as it is
NextMT ==
  \/ Finalize
  \/ ChainEnter
  \/ MapInput
  \/ Probe
  \/ Alloc
  \/ MapOutput
  \/ Transform
  \/ Unmap
  \/ Trim
  \/ Push
  \/ Release
  \/ OtherChain

SpecMT == Init /\ [][NextMT]_vars

\* the invocation has returned to its caller
Returned == pc = "idle" /\ ret # "none"

TypeOK ==
  /\ xop \in XopTypes
  /\ xform_op \in XopTypes
  /\ pc \in {"idle", "map_in", "probe", "alloc", "map_out", "transform",
              "unmap", "trim", "push", "release"}
  /\ nbuf \in 0 .. MaxBuffers
  /\ failed \subseteq Steps
  /\ trace \subseteq Steps
  /\ Len(downstream) <= nbuf
  /\ xop_at_entry \in XopTypes
  /\ pc2 \in {"idle", "map_in", "probe", "alloc", "map_out", "transform",
               "unmap", "trim", "push", "release"}

(* ------------------------------------------------------------------ claims *)

\* the buffer most recently received by the peer of srcpad
LastPushed == downstream[Len(downstream)]

\* C1: in an invocation whose header probe failed, no buffer is pushed to
\* the downstream pad
C1_NoPushAfterProbeFailure ==
  "probe" \in failed => pushedNow = 0

\* C2: in an invocation whose transform call failed, the output buffer is
\* released and neither it nor a region of it is pushed downstream
C2_NoPushAfterTransformFailure ==
  "transform" \in failed =>
    /\ pushedNow = 0
    /\ Returned => outRefs = 0

\* C3: when the allocator provides no output memory, the transform is not
\* run, no buffer is pushed downstream, and the invocation returns a failure
\* with the input buffer released
C3_AllocationFailureEndsInvocation ==
  "alloc" \in failed =>
    /\ "transform" \notin trace
    /\ pushedNow = 0
    /\ Returned => (ret = "GST_FLOW_ERROR" /\ inRefs = 0)

\* C4: on every exit path the input buffer has been unreferenced exactly
\* once when the chain function returns
C4_InputReleasedExactlyOnce ==
  Returned => inUnrefs = 1

\* C5: a buffer pushed downstream carries the timestamp and the flags of the
\* input buffer of the same invocation
C5_PushedCarriesInputMetadata ==
  pushedNow = 1 =>
    /\ LastPushed.pts = inbuf.pts
    /\ LastPushed.bflags = inbuf.bflags

\* C6: whenever the transform is invoked, the probe of the same input buffer
\* succeeded and the output region is at least as large as tjBufSize of the
\* geometry the probe returned
C6_TransformCapacityFromProbe ==
  "transform" \in trace =>
    /\ "probe" \notin failed
    /\ outCap >= tjBufSize(geo[1], geo[2], geo[3])

\* C7: for every operation and well-formed input, the byte count the
\* transform reports is at most the capacity of the output buffer allocated
\* for the invocation, and no forwarded buffer is larger than that capacity
C7_WrittenWithinCapacity ==
  /\ (inbuf.wellFormed /\ written # -1) => written <= outCap
  /\ pushedNow = 1 => LastPushed.size <= outCap

\* C7 happens: a well-formed input was transformed by a rotation, the
\* transform filled the whole allocated capacity, and the result was pushed
C7_Witness ==
  /\ pushedNow = 1
  /\ inbuf.wellFormed
  /\ failed = {}
  /\ xform_op = 5
  /\ written = outCap
  /\ outCap = tjBufSize(inbuf.geom[1], inbuf.geom[2], inbuf.geom[3])

\* C8: a buffer pushed after a successful transform starts at offset 0 of
\* the output buffer and its size is the byte count the transform reported
C8_PushedSizeIsBytesWritten ==
  (pushedNow = 1 /\ written # -1) =>
    /\ trimmedbuf.offset = 0
    /\ trimmedbuf.size = written
    /\ LastPushed.size = written

\* C8 happens: the transform wrote less than the allocated capacity and the
\* result was pushed
C8_Witness ==
  /\ pushedNow = 1
  /\ written # -1
  /\ written < outCap

\* C9: an invocation in which a step failed returns a failure, never the
\* success of a downstream push
C9_FailureReturnsFailure ==
  (Returned /\ failed # {}) => ret # "GST_FLOW_OK"

\* C10: an invocation posts at most one stream-level error
C10_AtMostOneError ==
  errors <= 1

\* C11 as stated: the operation applied to a buffer is the value xop had
\* when the invocation of the chain function started
C11_OpIsValueAtEntry ==
  [][(pc = "alloc" /\ pc' = "map_out") => xform_op' = xop_at_entry]_vars

\* C11: the operation applied to a buffer is the value xop has when the
\* chain function copies it into xform.op, and that one value stays in use
\* for the rest of the invocation whatever is set meanwhile, so that a later
\* change takes effect only on the next buffer
C11_OpIsValueAtCopy ==
  [][ /\ (pc = "alloc" /\ pc' = "map_out") => xform_op' = xop
      /\ pc \notin {"idle", "alloc"} => xform_op' = xform_op ]_vars

\* C11 happens: the property was set while the buffer was being processed,
\* after the copy, and the transform ran with the value copied before
C11_Witness ==
  /\ pc # "idle"
  /\ "transform" \in trace
  /\ xform_op # xop
  /\ xform_op # DEFAULT_XOP

\* the buffers received downstream arrived in the order of the invocations
\* that pushed them, at most one per invocation
PushedInArrivalOrder ==
  \A i, j \in DOMAIN downstream :
    i < j => downstream[i].seq < downstream[j].seq

\* C12 as stated: every well-formed input buffer has exactly one forwarded
\* buffer when its invocation returns, and the forwarded buffers are in the
\* order of the inputs
C12_OnePushPerWellFormedInput ==
  /\ (Returned /\ inbuf.wellFormed) => pushedNow = 1
  /\ PushedInArrivalOrder

\* C12: every well-formed input buffer whose invocation had no failing step
\* has exactly one forwarded buffer when the invocation returns, no
\* invocation forwards more than one buffer, and the forwarded buffers are
\* in the order of the inputs
C12_OnePushPerProcessedInput ==
  /\ (Returned /\ inbuf.wellFormed /\ failed = {}) =>
       (pushedNow = 1 /\ LastPushed.seq = nbuf)
  /\ pushedNow <= 1
  /\ PushedInArrivalOrder

\* C12 happens: two well-formed buffers were processed one after the other
\* and downstream holds one buffer for each, in order
C12_Witness ==
  /\ Returned
  /\ nbuf = 2
  /\ inbuf.wellFormed
  /\ failed = {}
  /\ Len(downstream) = 2
  /\ downstream[1].seq = 1
  /\ downstream[2].seq = 2

\* C13: once a step of an invocation has failed, no later step of that
\* invocation is executed: nothing after a failed input map, no allocation
\* and no transform after a failed probe, no output map after a failed
\* allocation, no transform after a failed output map, no trim and no push
\* after a failed transform
C13_FailureShortCircuits ==
  /\ "map_in" \in failed => "probe" \notin trace
  /\ "probe" \in failed => ("alloc" \notin trace /\ "transform" \notin trace)
  /\ "alloc" \in failed => "map_out" \notin trace
  /\ "map_out" \in failed => "transform" \notin trace
  /\ "transform" \in failed => (pc \notin {"push", "release"} /\ pushedNow = 0)

\* C14: when the chain function has returned, every buffer it mapped has
\* been unmapped, on every exit path
C14_MapsUnmappedAtReturn ==
  Returned => (~inMapped /\ ~outMapped)

\* C15: the probe runs with the input buffer mapped, the transform runs with
\* the input and the output buffer mapped, and when the trimmed buffer is
\* pushed neither the input nor the output buffer is mapped
C15_AccessOnlyWhileMapped ==
  /\ pc = "probe" => inMapped
  /\ pc = "transform" => (inMapped /\ outMapped)
  /\ pc = "push" => (~inMapped /\ ~outMapped)
  /\ (pc = "release" /\ pushedNow = 1) => (~inMapped /\ ~outMapped)

\* C15 happens: the probe and the transform have run on the mapped buffers
\* and the trimmed buffer is about to be pushed
C15_Witness ==
  /\ pc = "push"
  /\ {"probe", "transform"} \subseteq trace
  /\ failed = {}
  /\ trimmedbuf.kind = "buffer"

\* C16: the output buffer of an invocation is never leaked: when the chain
\* function returns, the invocation holds no reference on it and has
\* released it exactly once if it was allocated, and a trimmed buffer made
\* from it has been handed to downstream by the push
C16_OutputReleasedExactlyOnce ==
  /\ outUnrefs <= 1
  /\ outRefs \in {0, 1}
  /\ Returned => /\ outRefs = 0
                 /\ outUnrefs = IF "alloc" \in trace THEN 1 ELSE 0
                 /\ trimmedbuf.kind = "buffer" => pushedNow = 1

\* C16 happens: an invocation succeeded, its trimmed buffer went downstream
\* and its output buffer was released
C16_Witness ==
  /\ Returned
  /\ failed = {}
  /\ "alloc" \in trace
  /\ pushedNow = 1
  /\ ret = "GST_FLOW_OK"
  /\ outUnrefs = 1

\* C17: no step of the chain function, in an invocation that succeeds or in
\* one that fails, changes the configured operation or the two codec
\* handles of the instance
C17_ChainLeavesInstanceState ==
  [][pc' # pc => instance_vars' = instance_vars]_vars

\* C17 happens: after an invocation that forwarded nothing, a later buffer
\* was processed with the operation configured meanwhile and forwarded
C17_Witness ==
  /\ Returned
  /\ nbuf = 2
  /\ Len(downstream) = 1
  /\ failed = {}
  /\ pushedNow = 1
  /\ xform_op = 5
  /\ xop = 5
  /\ tjHandle = "valid"
  /\ tjInstance = "valid"

\* the positions at which a thread is inside steps 1-4 (probe, estimate,
\* allocation, transform), which use self->tjHandle and self->tjInstance
CodecSteps == {"probe", "alloc", "map_out", "transform"}

C19_HandlesValidWhenUsed ==
  /\ (pc # "idle" /\ "probe" \in trace) => tjHandle = "valid"
  /\ (pc # "idle" /\ "transform" \in trace) => tjInstance = "valid"

====
